---- MODULE Spec2Model ----
(***************************************************************************)
(* The board game rule engine of degen-party:                              *)
(* contracts/board_game/src/game/mod.rs, GameState and process_action.     *)
(*                                                                         *)
(* One TLA+ action per GameAction variant.  Each action is the whole call  *)
(* of process_action for that variant: the match on (phase, action), the   *)
(* guards, the mutations in program order, and the value returned: a       *)
(* Process operator maps the state and the arguments to the state left     *)
(* behind, the Result ("Ok" or the error text) and the events.             *)
(*                                                                         *)
(* Identities are numbers: 0 is Identity::default() (the empty string) and *)
(* the order of the numbers is the key order of the BTreeMap.  Player      *)
(* indices are 1-based here and 0-based in the source.                     *)
(***************************************************************************)
EXTENDS Integers, Sequences, FiniteSets, TLC

\* ------------------------------------------------------------------------
\* Program constants
\* ------------------------------------------------------------------------
ROUNDS == 10
MAX_PLAYERS == 20
MaxDeposit == 10000000
BettingTimeout == 30000
RegistrationPeriod == 55000
\* A backend window of one minute instead of two.
ShortBackendTimeout == 60 * 1000
BackendTimeout == 120000
GameTimeout == 600000
PenaltyCoins == 10
WheelOutcomes == 5
DiceMin == 1
DiceMax == 10

\* i32
MaxI32 == 2147483647
MinI32 == -MaxI32 - 1

\* ------------------------------------------------------------------------
\* Bounds of the model
\* ------------------------------------------------------------------------
\* Longest player_results list of an EndMinigame.
MaxResults == 2
\* EndMinigame is explored while it leaves no balance above MaxCoins.
MaxCoins == 15
\* SpecReg: registrations are explored while at most MaxSmallDeposits players
\* have made the smallest deposit.
MaxSmallDeposits == 1

\* The callers of the game (Spec).
Ids == {1, 2}
DefaultIdentity == 0
\* An identity that never registers.
UnknownId == Cardinality(Ids) + 1
BackendIdentity == 1
DefaultLane == "lane"

Names == {"alice", "bob"}
Contracts == {"a", "b"}
MinigameLists == {<<>>, <<"b", "a">>}
\* With this seed the first wheel outcomes are 3, 1, 0, 2: every arm of the
\* wheel is taken in the first rounds.
Seeds == {963}
\* The lists and seeds with which reset is called directly.
ResetLists == MinigameLists \cup {<<"a">>}
ResetSeeds == Seeds \cup {7}
\* The times at which each action is tried.
InitializeTimestamps == {0, 1}
StartGameTimestamps == {55000, 55001}
PlaceBetTimestamps == {55001, 85001, 85002}
SpinWheelTimestamps == {55001, 85001}
EndMinigameTimestamps == {55001}
EndGameTimestamps == {120000, 120001, 600000, 600001}

\* ------------------------------------------------------------------------
\* Integer types
\* ------------------------------------------------------------------------
\* A u64 value v is the record [a, b, c] with v = a*2^62 + b*2^31 + c,
\* 0 <= a < 4, 0 <= b, c < 2^31.
U64(a, b, c) == [a |-> a, b |-> b, c |-> c]
U64Of(n) == U64(0, 0, n)
U64IsZero(v) == v.a = 0 /\ v.b = 0 /\ v.c = 0
\* v > n for a small n (0 <= n < 2^31)
U64Greater(v, n) == v.a > 0 \/ v.b > 0 \/ v.c > n

\* `v as i32` for a u64 v: the low 32 bits, read as two's complement.
U64AsI32(v) == IF v.b % 2 = 1 THEN (v.c - MaxI32) - 1 ELSE v.c

\* `x as u64` for an i32 x: sign extension.
I32AsU64(x) == IF x >= 0 THEN U64(0, 0, x) ELSE U64(3, MaxI32, (x + MaxI32) + 1)

\* i32 addition: whether it overflows, and its wrapped (two's complement) result.
AddOverflows(x, y) ==
    \/ y > 0 /\ x > MaxI32 - y
    \/ y < 0 /\ x < MinI32 - y
WrappingAdd(x, y) ==
    IF y > 0 /\ x > MaxI32 - y THEN ((x - MaxI32) - 1) + ((y - MaxI32) - 1)
    ELSE IF y < 0 /\ x < MinI32 - y THEN ((x + MaxI32) + 1) + ((y + MaxI32) + 1)
    ELSE x + y
\* i32 negation: overflows only on i32::MIN, where the wrapped result is i32::MIN.
NegOverflows(x) == x = MinI32
WrappingNeg(x) == IF x = MinI32 THEN MinI32 ELSE -x

\* u128 saturating operations on the timestamps (values far below 2^128).
SaturatingSub(x, y) == IF x >= y THEN x - y ELSE 0
SaturatingAdd(x, y) == x + y

Max(x, y) == IF x >= y THEN x ELSE y

\* ------------------------------------------------------------------------
\* State: the fields of GameState
\* ------------------------------------------------------------------------
VARIABLES players, max_players, minigames, dice, phase, round_started_at,
          round, bets, all_or_nothing, backend_identity,
          last_interaction_time, lane_id

game == <<players, max_players, minigames, dice, phase, round_started_at,
          round, bets, all_or_nothing, backend_identity,
          last_interaction_time, lane_id>>
vars == <<players, max_players, minigames, dice, phase, round_started_at,
          round, bets, all_or_nothing, backend_identity,
          last_interaction_time, lane_id>>

\* GamePhase
Registration == <<"Registration">>
Betting == <<"Betting">>
WheelSpin == <<"WheelSpin">>
StartMinigamePhase(m) == <<"StartMinigame", m>>
InMinigame(m) == <<"InMinigame", m>>
FinalMinigame(m) == <<"FinalMinigame", m>>
RewardsDistribution == <<"RewardsDistribution">>
GameOver == <<"GameOver">>

Player(id, name, coins) ==
    [id |-> id, name |-> name, position |-> 0, coins |-> coins, used_uuids |-> <<>>]

EmptyBets == [i \in {} |-> U64Of(0)]

\* The outcome of a call that panics (an arithmetic overflow in a build with
\* overflow checks): the call returns nothing and the program stops.
Panic == "panic"

\* ------------------------------------------------------------------------
\* dice::Dice: a linear congruential generator over the stored seed
\* ------------------------------------------------------------------------
DiceModulus == 65537
DiceMultiplier == 75
DiceIncrement == 74

DiceNew(min, max, seed) == [min |-> min, max |-> max, seed |-> seed]
DiceStep(seed) == (seed * DiceMultiplier + DiceIncrement) % DiceModulus
\* roll(): advances the generator; a value in [min, max].
DiceRoll(d) ==
    LET next == DiceStep(d.seed)
    IN [dice |-> [d EXCEPT !.seed = next],
        value |-> d.min + (next % ((d.max - d.min) + 1))]

Swap(seq, i, j) == [seq EXCEPT ![i] = seq[j], ![j] = seq[i]]
\* shuffle(): Fisher-Yates from the last position down, one draw per position.
RECURSIVE ShuffleFrom(_, _, _)
ShuffleFrom(d, seq, i) ==
    IF i <= 1 THEN [dice |-> d, seq |-> seq]
    ELSE LET next == DiceStep(d.seed)
             j == 1 + (next % i)
         IN ShuffleFrom([d EXCEPT !.seed = next], Swap(seq, i, j), i - 1)
DiceShuffle(d, seq) == ShuffleFrom(d, seq, Len(seq))

\* ------------------------------------------------------------------------
\* GameState as a value, and the results of a call
\* ------------------------------------------------------------------------
Self ==
    [players |-> players, max_players |-> max_players, minigames |-> minigames,
     dice |-> dice, phase |-> phase, round_started_at |-> round_started_at,
     round |-> round, bets |-> bets, all_or_nothing |-> all_or_nothing,
     backend_identity |-> backend_identity,
     last_interaction_time |-> last_interaction_time, lane_id |-> lane_id]

\* GameState::new
New(backend) ==
    [players |-> <<>>, max_players |-> MAX_PLAYERS, minigames |-> <<>>,
     dice |-> DiceNew(DiceMin, DiceMax, 0), phase |-> GameOver,
     round_started_at |-> 0, round |-> 0, bets |-> EmptyBets,
     all_or_nothing |-> FALSE, backend_identity |-> backend,
     last_interaction_time |-> 0, lane_id |-> DefaultLane]

\* A reset that would keep the generator where the last game left it.
ResetKeepingDice(self, games, random_seed) ==
    [players |-> <<>>, max_players |-> MAX_PLAYERS, minigames |-> games,
     dice |-> [self.dice EXCEPT !.seed = (@ + random_seed) % DiceModulus],
     phase |-> GameOver,
     round_started_at |-> 0, round |-> 0, bets |-> EmptyBets,
     all_or_nothing |-> FALSE, backend_identity |-> self.backend_identity,
     last_interaction_time |-> self.last_interaction_time,
     lane_id |-> self.lane_id]

\* GameState::reset
Reset(self, games, random_seed) ==
    [players |-> <<>>, max_players |-> MAX_PLAYERS, minigames |-> games,
     dice |-> DiceNew(DiceMin, DiceMax, random_seed), phase |-> GameOver,
     round_started_at |-> 0, round |-> 0, bets |-> EmptyBets,
     all_or_nothing |-> FALSE, backend_identity |-> self.backend_identity,
     last_interaction_time |-> self.last_interaction_time,
     lane_id |-> self.lane_id]

\* What process_action leaves behind: the state, the Result and the events.
Ok(self, evs) == [state |-> self, ret |-> "Ok", events |-> evs]
Err(self, msg) == [state |-> self, ret |-> msg, events |-> <<>>]
\* A panic returns nothing: no state is produced, the program stops.
Panicked(self) == [state |-> self, ret |-> Panic, events |-> <<>>]

\* GameEvent
CoinsChanged(id, amount) == [type |-> "CoinsChanged", player_id |-> id, amount |-> amount]
GameEnded(id, coins) == [type |-> "GameEnded", winner_id |-> id, final_coins |-> coins]
MinigameReady(m) == [type |-> "MinigameReady", minigame_type |-> m]
MinigameStarted(m) == [type |-> "MinigameStarted", minigame_type |-> m]
MinigameEnded(result) == [type |-> "MinigameEnded", result |-> result]
GameInitialized(seed) == [type |-> "GameInitialized", random_seed |-> seed]
PlayerRegistered(name, id) == [type |-> "PlayerRegistered", name |-> name, player_id |-> id]
GameStarted(n) == [type |-> "GameStarted", player_count |-> n]
BetPlaced(id, amount) == [type |-> "BetPlaced", player_id |-> id, amount |-> amount]
WheelSpun(r, outcome) == [type |-> "WheelSpun", round |-> r, outcome |-> outcome]
AllOrNothingActivated == [type |-> "AllOrNothingActivated"]

\* ------------------------------------------------------------------------
\* Helpers of GameState
\* ------------------------------------------------------------------------
\* self.players.iter().position(|p| p.id == id): the first index, 0 for None.
Position(ps, id) ==
    IF \E i \in 1..Len(ps) : ps[i].id = id
    THEN CHOOSE i \in 1..Len(ps) :
            ps[i].id = id /\ \A j \in 1..(i - 1) : ps[j].id # id
    ELSE 0

\* The indices of the players with coins > 0, in list order.
RECURSIVE ActiveFrom(_, _)
ActiveFrom(ps, i) ==
    IF i > Len(ps) THEN <<>>
    ELSE IF ps[i].coins > 0 THEN <<i>> \o ActiveFrom(ps, i + 1)
    ELSE ActiveFrom(ps, i + 1)
ActiveIndices(ps) == ActiveFrom(ps, 1)

\* update_player_coins without the floor at zero: what the balances would be
\* if the clamp were missing.
UpdatePlayerCoinsUnclamped(w, i, delta, checks) ==
    IF i < 1 \/ i > Len(w.players) THEN [w EXCEPT !.status = "Player not found"]
    ELSE IF AddOverflows(w.players[i].coins, delta) /\ checks
    THEN [w EXCEPT !.status = Panic]
    ELSE [w EXCEPT
            !.players[i].coins = WrappingAdd(w.players[i].coins, delta),
            !.events = Append(w.events, CoinsChanged(w.players[i].id, delta))]

\* update_player_coins on a working value w = [players, events, status]:
\* checks says whether the build panics on overflow.
UpdatePlayerCoins(w, i, delta, checks) ==
    IF i < 1 \/ i > Len(w.players) THEN [w EXCEPT !.status = "Player not found"]
    ELSE IF AddOverflows(w.players[i].coins, delta) /\ checks
    THEN [w EXCEPT !.status = Panic]
    ELSE [w EXCEPT
            !.players[i].coins = Max(WrappingAdd(w.players[i].coins, delta), 0),
            !.events = Append(w.events, CoinsChanged(w.players[i].id, delta))]

\* The keys of the bet ledger in BTreeMap order.
RECURSIVE SortedKeys(_)
SortedKeys(S) ==
    IF S = {} THEN <<>>
    ELSE LET m == CHOOSE x \in S : \A y \in S : x <= y
         IN <<m>> \o SortedKeys(S \ {m})

\* A get_minigame_setup that would follow the players list instead of the
\* ledger's key order.
RECURSIVE SetupInListOrderFrom(_, _)
SetupInListOrderFrom(self, i) ==
    IF i > Len(self.players) THEN <<>>
    ELSE IF self.players[i].id \in DOMAIN self.bets /\ self.players[i].coins > 0
    THEN <<<<self.players[i].id, self.players[i].name, self.bets[self.players[i].id]>>>>
             \o SetupInListOrderFrom(self, i + 1)
    ELSE SetupInListOrderFrom(self, i + 1)
GetMinigameSetupInListOrder(self) == SetupInListOrderFrom(self, 1)

\* get_minigame_setup
RECURSIVE SetupFrom(_, _, _)
SetupFrom(self, keys, k) ==
    IF k > Len(keys) THEN <<>>
    ELSE LET id == keys[k]
             found == {i \in 1..Len(self.players) :
                          self.players[i].id = id /\ self.players[i].coins > 0}
         IN IF found = {} THEN SetupFrom(self, keys, k + 1)
            ELSE LET i == CHOOSE x \in found : \A y \in found : x <= y
                 IN <<<<id, self.players[i].name, self.bets[id]>>>>
                        \o SetupFrom(self, keys, k + 1)
GetMinigameSetup(self) == SetupFrom(self, SortedKeys(DOMAIN self.bets), 1)

\* apply_minigame_result
ApplyMinigameResult(w, i, result, checks) ==
    IF result.coins_delta # 0
    THEN UpdatePlayerCoins(w, i, result.coins_delta, checks)
    ELSE w

\* An is_registered that would find no identity registered.
IsRegisteredNever(self, caller) == FALSE

\* is_registered
IsRegistered(self, caller) ==
    \E i \in 1..Len(self.players) :
        self.players[i].id = caller /\ self.players[i].coins > 0

\* A game-over policy that would never trigger.
NeverGameOver(ps, ph) == [ended |-> FALSE, phase |-> ph, events |-> <<>>]

\* check_and_handle_game_over: [ended, phase, events] for the players ps.
CheckAndHandleGameOver(ps, ph) ==
    LET with_coins == ActiveIndices(ps)
    IN IF Len(with_coins) = 1 /\ Len(ps) > 1
       THEN [ended |-> TRUE, phase |-> RewardsDistribution,
             events |-> <<GameEnded(ps[with_coins[1]].id, ps[with_coins[1]].coins)>>]
       ELSE IF Len(with_coins) = 0
       THEN [ended |-> TRUE, phase |-> GameOver,
             events |-> <<GameEnded(DefaultIdentity, 0)>>]
       ELSE [ended |-> FALSE, phase |-> ph, events |-> <<>>]

InvalidAction == "Invalid action for phase"

\* (_, EndGame)
ProcessEndGame(self, caller, timestamp, checks) ==
    LET underflow == timestamp < self.last_interaction_time
        is_ended == self.phase = GameOver
        is_backend == self.backend_identity = caller
        \* a wrapped u128 difference is far above both limits
        backend_timed_out ==
            underflow \/ timestamp - self.last_interaction_time > BackendTimeout
        game_timed_out ==
            underflow \/ timestamp - self.last_interaction_time > GameTimeout
    IN IF underflow /\ checks THEN Panicked(self)
       ELSE IF is_ended \/ (is_backend /\ backend_timed_out) \/ game_timed_out
       THEN Ok(Reset(self, self.minigames, self.dice.seed),
               <<GameEnded(DefaultIdentity, 0)>>)
       ELSE Err(self, "Only the backend can end the game")

\* An Initialize that would take an empty list of minigames.
ProcessInitializeAnyList(self, games, random_seed, timestamp) ==
    IF self.phase # GameOver THEN Err(self, InvalidAction)
    ELSE Ok([Reset(self, games, random_seed) EXCEPT
                !.round_started_at = timestamp, !.phase = Registration],
            <<GameInitialized(random_seed)>>)

\* (GameOver, Initialize)
ProcessInitialize(self, games, random_seed, timestamp) ==
    IF self.phase # GameOver THEN Err(self, InvalidAction)
    ELSE IF Len(games) = 0 THEN Err(self, "Minigames cannot be empty")
    ELSE Ok([Reset(self, games, random_seed) EXCEPT
                !.round_started_at = timestamp, !.phase = Registration],
            <<GameInitialized(random_seed)>>)

\* (Registration, RegisterPlayer)
ProcessRegisterPlayer(self, caller, name, deposit) ==
    IF self.phase # Registration THEN Err(self, InvalidAction)
    ELSE IF Len(self.players) >= self.max_players THEN Err(self, "Game is full")
    ELSE IF IsRegistered(self, caller)
    THEN Err(self, "Player with identity already exists")
    ELSE IF \E i \in 1..Len(self.players) : self.players[i].name = name
    THEN Err(self, "Player with name already exists")
    ELSE IF U64IsZero(deposit) THEN Err(self, "Deposit must be greater than zero")
    ELSE IF U64Greater(deposit, MaxDeposit)
    THEN Err(self, "Deposit exceeds maximum allowed amount")
    ELSE Ok([self EXCEPT
                !.players = Append(@, Player(caller, name, U64AsI32(deposit)))],
            <<PlayerRegistered(name, caller)>>)

\* (Registration, StartGame)
ProcessStartGame(self, timestamp) ==
    IF self.phase # Registration THEN Err(self, InvalidAction)
    ELSE LET is_full == Len(self.players) = self.max_players
             registration_period_done ==
                 SaturatingAdd(self.round_started_at, RegistrationPeriod) < timestamp
         IN IF ~is_full /\ ~registration_period_done
            THEN Err(self, "Game is not full and registration period is not over")
            ELSE Ok([self EXCEPT !.phase = Betting,
                                 !.round_started_at = timestamp,
                                 !.round = 0],
                    <<GameStarted(Len(self.players))>>)

\* bets.insert(caller, amount)
BetsInsert(b, caller, amount) ==
    [k \in DOMAIN b \cup {caller} |-> IF k = caller THEN amount ELSE b[k]]

\* An amount check that would ignore the all-or-nothing round.
AmountRefusedPlain(player, all_or_nothing_round, amount) ==
    player.coins < U64AsI32(amount)

\* The amount check of PlaceBet: whether the bet is refused.
AmountRefused(player, all_or_nothing_round, amount) ==
    IF all_or_nothing_round
    THEN amount # I32AsU64(player.coins)
    ELSE player.coins < U64AsI32(amount)

\* An end of PlaceBet that would leave the phase alone.
StayInBetting(placed, evs) == Ok([placed EXCEPT !.phase = Betting], evs)

\* The end of PlaceBet, once the bet is in the ledger of placed.
AdvanceAfterBet(placed, evs) ==
    IF Cardinality(DOMAIN placed.bets) = Len(ActiveIndices(placed.players))
    THEN IF placed.round >= ROUNDS - 1
         THEN IF Len(placed.minigames) = 0
              THEN Err(placed, "No final minigame available")
              ELSE Ok([placed EXCEPT !.phase = FinalMinigame(placed.minigames[1])],
                      Append(evs, MinigameReady(placed.minigames[1])))
         ELSE Ok([placed EXCEPT !.phase = WheelSpin], evs)
    ELSE Ok([placed EXCEPT !.phase = Betting], evs)

\* (Betting, PlaceBet)
ProcessPlaceBet(self, caller, amount, timestamp) ==
    IF self.phase # Betting THEN Err(self, InvalidAction)
    ELSE IF SaturatingSub(timestamp, self.round_started_at) > BettingTimeout
    THEN Err(self, "Betting time is over")
    ELSE IF caller \in DOMAIN self.bets
    THEN Err(self, "Player has already placed a bet")
    \* "Player {} not found", with the caller in the text
    ELSE IF Position(self.players, caller) = 0 THEN Err(self, "Player {} not found")
    ELSE LET player == self.players[Position(self.players, caller)]
         IN IF player.coins = 0
            THEN Err(self, "Player is out of the game (no coins)")
            ELSE IF AmountRefused(player, self.all_or_nothing, amount)
            THEN Err(self, IF self.all_or_nothing
                           THEN "All or nothing round: you must bet all your coins"
                           ELSE "Player does not have enough coins")
            ELSE AdvanceAfterBet([self EXCEPT !.bets = BetsInsert(@, caller, amount)],
                                 <<BetPlaced(caller, amount)>>)

\* The penalty loop of SpinWheel over the indices to_penalize, from its k-th.
RECURSIVE PenalizeFrom(_, _, _, _, _)
PenalizeFrom(w, to_penalize, k, to_zero, checks) ==
    IF k > Len(to_penalize) \/ w.status # "Ok" THEN w
    ELSE LET i == to_penalize[k]
             next == IF to_zero
                     THEN [w EXCEPT !.players[i].coins = 0]
                     ELSE UpdatePlayerCoins(w, i, -PenaltyCoins, checks)
         IN PenalizeFrom(next, to_penalize, k + 1, to_zero, checks)

\* A selection that would penalize every player with coins, bettors too.
ToPenalizeAll(ps, b, i) == ActiveFrom(ps, i)

\* The players to penalize: coins > 0 and no entry in the ledger.
RECURSIVE ToPenalizeFrom(_, _, _)
ToPenalizeFrom(ps, b, i) ==
    IF i > Len(ps) THEN <<>>
    ELSE IF ps[i].coins > 0 /\ ps[i].id \notin DOMAIN b
    THEN <<i>> \o ToPenalizeFrom(ps, b, i + 1)
    ELSE ToPenalizeFrom(ps, b, i + 1)

\* The pay-out loop of wheel outcome 1 over bet_entries, from its k-th.
RECURSIVE PayOutFrom(_, _, _, _, _)
PayOutFrom(w, bet_entries, k, player_indices, checks) ==
    IF k > Len(bet_entries) \/ w.status # "Ok" THEN w
    ELSE LET bettor == bet_entries[k][1]
             amount == U64AsI32(bet_entries[k][2])
             bettor_idx == Position(w.players, bettor)
         IN IF bettor_idx = 0 THEN [w EXCEPT !.status = "Bettor not found"]
            ELSE IF NegOverflows(amount) /\ checks THEN [w EXCEPT !.status = Panic]
            ELSE LET taken == UpdatePlayerCoins(w, bettor_idx, WrappingNeg(amount), checks)
                 IN IF taken.status # "Ok" THEN taken
                    \* i % player_indices.len() with an empty list panics
                    ELSE IF Len(player_indices) = 0 THEN [w EXCEPT !.status = Panic]
                    ELSE LET winner_idx ==
                                 player_indices[((k - 1) % Len(player_indices)) + 1]
                         IN PayOutFrom(UpdatePlayerCoins(taken, winner_idx, amount, checks),
                                       bet_entries, k + 1, player_indices, checks)

\* The entries of the ledger in key order.
BetEntries(b) ==
    LET keys == SortedKeys(DOMAIN b)
    IN [k \in 1..Len(keys) |-> <<keys[k], b[keys[k]]>>]

\* A match on the wheel outcome whose every branch would be the one of
\* outcome 0.
WheelOutcomeAlwaysNothing(self, outcome, evs, timestamp, checks) ==
    Ok([self EXCEPT !.round = @ + 1, !.bets = EmptyBets,
                    !.round_started_at = timestamp, !.phase = Betting], evs)

\* The match on the wheel outcome, after the roll.
WheelOutcome(self, outcome, evs, timestamp, checks) ==
    IF outcome = 0
    THEN Ok([self EXCEPT !.round = @ + 1, !.bets = EmptyBets,
                         !.round_started_at = timestamp, !.phase = Betting], evs)
    ELSE IF outcome = 1
    THEN LET shuffled == DiceShuffle(self.dice, ActiveIndices(self.players))
             paid == PayOutFrom([players |-> self.players, events |-> evs, status |-> "Ok"],
                                BetEntries(self.bets), 1, shuffled.seq, checks)
             after == [self EXCEPT !.bets = EmptyBets, !.dice = shuffled.dice,
                                   !.players = paid.players]
         IN IF paid.status = Panic THEN Panicked(self)
            ELSE IF paid.status # "Ok" THEN Err(after, paid.status)
            ELSE Ok([after EXCEPT !.round = @ + 1, !.round_started_at = timestamp,
                                  !.phase = Betting], paid.events)
    ELSE IF outcome = 2
    THEN Ok([self EXCEPT !.all_or_nothing = TRUE, !.round = @ + 1,
                         !.bets = EmptyBets, !.round_started_at = timestamp,
                         !.phase = Betting],
            Append(evs, AllOrNothingActivated))
    ELSE IF Len(self.minigames) > 0
    THEN Ok([self EXCEPT !.phase = StartMinigamePhase(self.minigames[1])],
            Append(evs, MinigameReady(self.minigames[1])))
    ELSE Err(self, "No minigame available")

\* (WheelSpin, SpinWheel) | (Betting, SpinWheel)
ProcessSpinWheel(self, timestamp, checks) ==
    IF self.phase # WheelSpin /\ self.phase # Betting THEN Err(self, InvalidAction)
    ELSE IF self.phase = Betting
            /\ SaturatingSub(timestamp, self.round_started_at) < BettingTimeout
    THEN Err(self, "Not enough time has passed")
    ELSE LET start == [players |-> self.players, events |-> <<>>, status |-> "Ok"]
             penalized ==
                 IF self.phase = Betting
                 THEN PenalizeFrom(start, ToPenalizeFrom(self.players, self.bets, 1), 1,
                                   self.round = 0 \/ self.all_or_nothing, checks)
                 ELSE start
             after == [self EXCEPT !.players = penalized.players,
                                   !.all_or_nothing = FALSE]
             over == CheckAndHandleGameOver(after.players, after.phase)
             rolled == DiceRoll(after.dice)
             outcome == rolled.value % WheelOutcomes
             spun == WheelOutcome([after EXCEPT !.dice = rolled.dice], outcome,
                                  Append(penalized.events, WheelSpun(after.round, outcome)),
                                  timestamp, checks)
         IN IF penalized.status = Panic THEN Panicked(self)
            ELSE IF penalized.status # "Ok"
            THEN Err([self EXCEPT !.players = penalized.players], penalized.status)
            ELSE IF over.ended
            THEN Ok([after EXCEPT !.phase = over.phase], penalized.events \o over.events)
            ELSE IF spun.ret = Panic THEN Panicked(self)
            ELSE spun

\* (StartMinigame(expected), StartMinigame) and (FinalMinigame(expected), StartMinigame)
ProcessStartMinigame(self, minigame, manifest) ==
    IF self.phase[1] # "StartMinigame" /\ self.phase[1] # "FinalMinigame"
    THEN Err(self, InvalidAction)
    ELSE IF self.phase[2] # minigame THEN Err(self, "Minigame mismatch")
    ELSE IF GetMinigameSetup(self) # manifest THEN Err(self, "Minigame players mismatch")
    ELSE Ok([self EXCEPT !.phase = InMinigame(minigame)], <<MinigameStarted(minigame)>>)

\* The loop of EndMinigame over player_results, from its k-th.
RECURSIVE ApplyResultsFrom(_, _, _, _)
ApplyResultsFrom(w, player_results, k, checks) ==
    IF k > Len(player_results) \/ w.status # "Ok" THEN w
    ELSE LET i == Position(w.players, player_results[k].player_id)
         IN IF i = 0
            THEN [w EXCEPT !.status = "Player not found for minigame result"]
            ELSE ApplyResultsFrom(ApplyMinigameResult(w, i, player_results[k], checks),
                                  player_results, k + 1, checks)

\* A max_by_key that would return the first of several maximal elements.
MaxByKeyCoinsFirst(ps) ==
    IF Len(ps) = 0 THEN 0
    ELSE CHOOSE i \in 1..Len(ps) :
            /\ \A j \in 1..Len(ps) : ps[j].coins <= ps[i].coins
            /\ \A j \in 1..(i - 1) : ps[j].coins < ps[i].coins

\* self.players.iter().max_by_key(|p| p.coins): the index of the last player
\* with the greatest balance, 0 for None.
MaxByKeyCoins(ps) ==
    IF Len(ps) = 0 THEN 0
    ELSE CHOOSE i \in 1..Len(ps) :
            /\ \A j \in 1..Len(ps) : ps[j].coins <= ps[i].coins
            /\ \A j \in (i + 1)..Len(ps) : ps[j].coins < ps[i].coins

\* (InMinigame(_), EndMinigame)
ProcessEndMinigame(self, result, timestamp, checks) ==
    IF self.phase[1] # "InMinigame" THEN Err(self, InvalidAction)
    ELSE LET applied ==
                 ApplyResultsFrom([players |-> self.players, events |-> <<>>,
                                   status |-> "Ok"],
                                  result.player_results, 1, checks)
             after == [self EXCEPT !.players = applied.players]
             over == CheckAndHandleGameOver(after.players, after.phase)
             evs == Append(applied.events, MinigameEnded(result))
             winner == MaxByKeyCoins(after.players)
         IN IF applied.status = Panic THEN Panicked(self)
            ELSE IF applied.status # "Ok" THEN Err(after, applied.status)
            ELSE IF over.ended
            THEN Ok([after EXCEPT !.phase = over.phase], applied.events \o over.events)
            ELSE IF self.round >= ROUNDS - 1
            THEN IF winner = 0 THEN Err(after, "No players found")
                 ELSE Ok([after EXCEPT !.phase = RewardsDistribution],
                         Append(evs, GameEnded(after.players[winner].id,
                                               after.players[winner].coins)))
            ELSE Ok([after EXCEPT !.round = @ + 1, !.bets = EmptyBets,
                                  !.round_started_at = timestamp, !.phase = Betting],
                    evs)

\* A DistributeRewards arm that would match every phase.
ProcessDistributeRewardsAnywhere(self) ==
    Ok([self EXCEPT !.phase = GameOver], <<>>)

\* (RewardsDistribution, DistributeRewards)
ProcessDistributeRewards(self) ==
    IF self.phase # RewardsDistribution THEN Err(self, InvalidAction)
    ELSE Ok([self EXCEPT !.phase = GameOver], <<>>)

\* EndTurn has no arm: the catch-all rejects it in every phase.
ProcessEndTurn(self) == Err(self, InvalidAction)

\* ------------------------------------------------------------------------
\* Inputs
\* ------------------------------------------------------------------------
Deposits == {U64Of(0), U64Of(15), U64Of(MaxDeposit + 1)}
BetAmounts == {U64Of(5), U64Of(10), U64(0, 1, 0)}
Deltas == {-10, 0, 10, MaxI32}

RECURSIVE SeqsUpTo(_, _)
SeqsUpTo(S, n) ==
    IF n = 0 THEN {<<>>}
    ELSE LET shorter == SeqsUpTo(S, n - 1)
         IN shorter \cup {Append(q, x) : q \in {t \in shorter : Len(t) = n - 1}, x \in S}

\* The delta of an unknown player is never read: one value stands for all.
PlayerResults ==
    [player_id : Ids, coins_delta : Deltas]
        \cup {[player_id |-> UnknownId, coins_delta |-> 10]}
MinigameResults ==
    {[contract_name |-> "a", player_results |-> r] : r \in SeqsUpTo(PlayerResults, MaxResults)}
Manifests == SeqsUpTo(Ids \X Names \X BetAmounts, Cardinality(Ids))

\* ------------------------------------------------------------------------
\* The state machine
\* ------------------------------------------------------------------------
\* The call leaves the state st behind.
Apply(st) ==
    /\ players' = st.players
    /\ max_players' = st.max_players
    /\ minigames' = st.minigames
    /\ dice' = st.dice
    /\ phase' = st.phase
    /\ round_started_at' = st.round_started_at
    /\ round' = st.round
    /\ bets' = st.bets
    /\ all_or_nothing' = st.all_or_nothing
    /\ backend_identity' = st.backend_identity
    /\ last_interaction_time' = st.last_interaction_time
    /\ lane_id' = st.lane_id

\* A call that returns (Ok or Err) leaves its state behind; a call that panics
\* returns nothing and ends the program, so it has no successor state.
Returns(r) == r.ret # Panic /\ Apply(r.state)

\* The two builds: with overflow checks an overflowing call panics, without
\* them it wraps.  A panicking call has no successor state, so the successors
\* of a state are those of the wrapping build; the claims about what a call
\* returns quantify over both builds.
Checked == TRUE
Wrapping == FALSE
Builds == {Checked, Wrapping}

\* The state after GameState::new(backend_identity).
Init ==
    /\ players = New(BackendIdentity).players
    /\ max_players = New(BackendIdentity).max_players
    /\ minigames = New(BackendIdentity).minigames
    /\ dice = New(BackendIdentity).dice
    /\ phase = New(BackendIdentity).phase
    /\ round_started_at = New(BackendIdentity).round_started_at
    /\ round = New(BackendIdentity).round
    /\ bets = New(BackendIdentity).bets
    /\ all_or_nothing = New(BackendIdentity).all_or_nothing
    /\ backend_identity = New(BackendIdentity).backend_identity
    /\ last_interaction_time = New(BackendIdentity).last_interaction_time
    /\ lane_id = New(BackendIdentity).lane_id

\* The catch-all arm rejects an action without reading its arguments, so in a
\* phase that has no arm for the action one argument value stands for all.
ArgsIn(has_arm, S) == IF has_arm THEN S ELSE {CHOOSE x \in S : TRUE}

\* A call of GameState::reset itself: the function is public, it has no
\* guard and returns nothing.
ResetCall ==
    \E games \in ResetLists, random_seed \in ResetSeeds :
        Apply(Reset(Self, games, random_seed))

EndGame ==
    \E caller \in Ids, timestamp \in EndGameTimestamps :
        Returns(ProcessEndGame(Self, caller, timestamp, Wrapping))

Initialize ==
    \E games \in ArgsIn(phase = GameOver, MinigameLists),
       random_seed \in ArgsIn(phase = GameOver, Seeds),
       timestamp \in ArgsIn(phase = GameOver, InitializeTimestamps) :
        Returns(ProcessInitialize(Self, games, random_seed, timestamp))

RegisterPlayer ==
    \E caller \in ArgsIn(phase = Registration, Ids),
       name \in ArgsIn(phase = Registration, Names),
       deposit \in ArgsIn(phase = Registration, Deposits) :
        Returns(ProcessRegisterPlayer(Self, caller, name, deposit))

StartGame ==
    \E timestamp \in ArgsIn(phase = Registration, StartGameTimestamps) :
        Returns(ProcessStartGame(Self, timestamp))

PlaceBet ==
    \E caller \in ArgsIn(phase = Betting, Ids \cup {UnknownId}),
       amount \in ArgsIn(phase = Betting, BetAmounts),
       timestamp \in ArgsIn(phase = Betting, PlaceBetTimestamps) :
        Returns(ProcessPlaceBet(Self, caller, amount, timestamp))

SpinWheel ==
    \E timestamp \in ArgsIn(phase \in {Betting, WheelSpin}, SpinWheelTimestamps) :
        Returns(ProcessSpinWheel(Self, timestamp, Wrapping))

StartMinigame ==
    \E minigame \in ArgsIn(phase[1] \in {"StartMinigame", "FinalMinigame"}, Contracts),
       manifest \in ArgsIn(phase[1] \in {"StartMinigame", "FinalMinigame"}, Manifests) :
        Returns(ProcessStartMinigame(Self, minigame, manifest))

EndMinigame ==
    \E result \in ArgsIn(phase[1] = "InMinigame", MinigameResults),
       timestamp \in ArgsIn(phase[1] = "InMinigame", EndMinigameTimestamps) :
        /\ Returns(ProcessEndMinigame(Self, result, timestamp, Wrapping))
        /\ \A i \in 1..Len(players') : players'[i].coins <= MaxCoins

EndTurn ==
    Returns(ProcessEndTurn(Self))

DistributeRewards ==
    Returns(ProcessDistributeRewards(Self))

Next ==
    \/ ResetCall
    \/ EndGame
    \/ Initialize
    \/ RegisterPlayer
    \/ StartGame
    \/ PlaceBet
    \/ SpinWheel
    \/ StartMinigame
    \/ EndMinigame
    \/ EndTurn
    \/ DistributeRewards

Spec == Init /\ [][Next]_vars

\* ------------------------------------------------------------------------
\* Registration up to max_players
\* ------------------------------------------------------------------------
\* The registrants are numbered in the order in which they first appear, and
\* the n-th brings the name RegNames[n]; a call may also repeat the identity
\* or the name of an earlier registrant.
RegNames ==
    <<"p1", "p2", "p3", "p4", "p5", "p6", "p7", "p8", "p9", "p10", "p11",
      "p12", "p13", "p14", "p15", "p16", "p17", "p18", "p19", "p20", "p21">>
RegCallers == 1..(Len(players) + 1)
RegNamesTried == {RegNames[k] : k \in RegCallers}
RegDeposits ==
    {U64Of(0), U64Of(1), U64Of(MaxDeposit), U64Of(MaxDeposit + 1), U64(0, 2, 1)}
SmallDeposits(ps) == Cardinality({i \in 1..Len(ps) : ps[i].coins = 1})

\* The dice play no part in registration: one seed.
InitializeReg ==
    \E timestamp \in ArgsIn(phase = GameOver, InitializeTimestamps) :
        Returns(ProcessInitialize(Self, <<"b", "a">>, 963, timestamp))

RegisterMany ==
    \E caller \in ArgsIn(phase = Registration, RegCallers),
       name \in ArgsIn(phase = Registration, RegNamesTried),
       deposit \in ArgsIn(phase = Registration, RegDeposits) :
        /\ Returns(ProcessRegisterPlayer(Self, caller, name, deposit))
        /\ SmallDeposits(players') <= MaxSmallDeposits

NextReg ==
    \/ InitializeReg
    \/ RegisterMany
    \/ StartGame

SpecReg == Init /\ [][NextReg]_vars

\* ------------------------------------------------------------------------
\* The calls that can be made in the current state
\* ------------------------------------------------------------------------
\* A call was rejected: process_action returned Err.
Rejected(r) == r.ret # "Ok" /\ r.ret # Panic
Accepted(r) == r.ret = "Ok"

\* P holds of what every call of process_action returns in the current state,
\* for the inputs of Spec and both builds.
EveryCall(P(_)) ==
    /\ \A caller \in Ids, timestamp \in EndGameTimestamps, checks \in Builds :
           P(ProcessEndGame(Self, caller, timestamp, checks))
    /\ \A games \in ArgsIn(phase = GameOver, MinigameLists),
          random_seed \in ArgsIn(phase = GameOver, Seeds),
          timestamp \in ArgsIn(phase = GameOver, InitializeTimestamps) :
           P(ProcessInitialize(Self, games, random_seed, timestamp))
    /\ \A caller \in ArgsIn(phase = Registration, Ids),
          name \in ArgsIn(phase = Registration, Names),
          deposit \in ArgsIn(phase = Registration, Deposits) :
           P(ProcessRegisterPlayer(Self, caller, name, deposit))
    /\ \A timestamp \in ArgsIn(phase = Registration, StartGameTimestamps) :
           P(ProcessStartGame(Self, timestamp))
    /\ \A caller \in ArgsIn(phase = Betting, Ids \cup {UnknownId}),
          amount \in ArgsIn(phase = Betting, BetAmounts),
          timestamp \in ArgsIn(phase = Betting, PlaceBetTimestamps) :
           P(ProcessPlaceBet(Self, caller, amount, timestamp))
    /\ \A timestamp \in ArgsIn(phase \in {Betting, WheelSpin}, SpinWheelTimestamps),
          checks \in Builds :
           P(ProcessSpinWheel(Self, timestamp, checks))
    /\ \A minigame \in ArgsIn(phase[1] \in {"StartMinigame", "FinalMinigame"}, Contracts),
          manifest \in ArgsIn(phase[1] \in {"StartMinigame", "FinalMinigame"}, Manifests) :
           P(ProcessStartMinigame(Self, minigame, manifest))
    /\ \A result \in ArgsIn(phase[1] = "InMinigame", MinigameResults),
          timestamp \in ArgsIn(phase[1] = "InMinigame", EndMinigameTimestamps),
          checks \in Builds :
           P(ProcessEndMinigame(Self, result, timestamp, checks))
    /\ P(ProcessEndTurn(Self))
    /\ P(ProcessDistributeRewards(Self))

\* ------------------------------------------------------------------------
\* C1
\* ------------------------------------------------------------------------
RejectedLeavesState(r) == Rejected(r) => r.state = Self

\* C1: in every reachable state, every call of process_action that returns an
\* error leaves the whole GameState identical to the state before the call;
\* this includes an EndMinigame whose result lists known players followed by
\* an unknown player_id.
C1_RejectionIsAtomic == EveryCall(RejectedLeavesState)

\* ------------------------------------------------------------------------
\* C2
\* ------------------------------------------------------------------------
\* C2: in every state reachable from GameState::new, round < ROUNDS.
C2_RoundBelowRounds == round < ROUNDS

\* ------------------------------------------------------------------------
\* C3
\* ------------------------------------------------------------------------
NonNegative(ps) == \A i \in 1..Len(ps) : ps[i].coins >= 0

\* Deltas over the whole signed 32-bit range, the extremes included.
WideDeltas == {MinI32, MinI32 + 1, -MaxI32, -21, -20, -11, -10, -9, -1, 0,
               1, 9, 10, 11, MaxI32 - 20, MaxI32 - 1, MaxI32}

\* C3: in every reachable state every player's coin balance is >= 0
\* (whatever penalties, wheel redistributions and minigame deltas led to it),
\* and update_player_coins leaves a balance >= 0 for any signed 32-bit delta,
\* in either build.
C3_CoinsNeverNegative ==
    /\ NonNegative(players)
    /\ \A i \in 1..Len(players), delta \in WideDeltas, checks \in Builds :
           LET w == UpdatePlayerCoins([players |-> players, events |-> <<>>,
                                       status |-> "Ok"], i, delta, checks)
           IN w.status = "Ok" => w.players[i].coins >= 0

\* A player with fewer coins than the penalty has not bet when the betting
\* time runs out: the accepted SpinWheel leaves that player at 0.
C3_Witness ==
    /\ phase = Betting /\ round > 0 /\ ~all_or_nothing
    /\ \E i \in 1..Len(players), timestamp \in SpinWheelTimestamps :
           /\ players[i].coins > 0 /\ players[i].coins < PenaltyCoins
           /\ players[i].id \notin DOMAIN bets
           /\ Accepted(ProcessSpinWheel(Self, timestamp, Checked))
           /\ ProcessSpinWheel(Self, timestamp, Checked).state.players[i].coins = 0

\* ------------------------------------------------------------------------
\* C4
\* ------------------------------------------------------------------------
\* C4: in every reachable state, every key of the bet ledger is the identity
\* of a player in the players list whose balance is > 0.
C4_LedgerKeysHaveCoins ==
    \A id \in DOMAIN bets :
        \E i \in 1..Len(players) : players[i].id = id /\ players[i].coins > 0

\* ------------------------------------------------------------------------
\* C5
\* ------------------------------------------------------------------------
WithCoins(ps) == {i \in 1..Len(ps) : ps[i].coins > 0}
Balances(ps) == [i \in 1..Len(ps) |-> ps[i].coins]

\* The game-over policy as it shows in the state a call leaves.
PolicyApplied(r) ==
    (Accepted(r) /\ Balances(r.state.players) # Balances(players))
        => /\ (Cardinality(WithCoins(r.state.players)) = 1 /\ Len(r.state.players) > 1)
                  => r.state.phase = RewardsDistribution
           /\ WithCoins(r.state.players) = {} => r.state.phase = GameOver

\* C5: after every accepted SpinWheel or EndMinigame that changed at least
\* one balance, exactly one player with coins > 0 among several players means
\* phase RewardsDistribution, and no player with coins > 0 means GameOver.
C5_GameOverPolicyAfterCoinChange ==
    /\ \A timestamp \in SpinWheelTimestamps, checks \in Builds :
           PolicyApplied(ProcessSpinWheel(Self, timestamp, checks))
    /\ \A result \in ArgsIn(phase[1] = "InMinigame", MinigameResults),
          timestamp \in EndMinigameTimestamps, checks \in Builds :
           PolicyApplied(ProcessEndMinigame(Self, result, timestamp, checks))

\* ------------------------------------------------------------------------
\* C6
\* ------------------------------------------------------------------------
\* The EndMinigame call r ended the game at the round limit, the elimination
\* policy not having triggered.
EndsAtRoundLimit(r) ==
    /\ phase[1] = "InMinigame" /\ round >= ROUNDS - 1
    /\ Accepted(r)
    /\ ~CheckAndHandleGameOver(r.state.players, phase).ended
Winner(r) == r.events[Len(r.events)]
HasMaxCoins(ps, i) == \A j \in 1..Len(ps) : ps[j].coins <= ps[i].coins

WinnerIsLastMax(r) ==
    EndsAtRoundLimit(r) =>
        /\ Winner(r).type = "GameEnded"
        /\ r.state.phase = RewardsDistribution
        /\ \E i \in 1..Len(r.state.players) :
               /\ r.state.players[i].id = Winner(r).winner_id
               /\ r.state.players[i].coins = Winner(r).final_coins
               /\ HasMaxCoins(r.state.players, i)
               /\ \A j \in (i + 1)..Len(r.state.players) :
                      ~HasMaxCoins(r.state.players, j)

WinnerIsFirstMax(r) ==
    EndsAtRoundLimit(r) =>
        /\ Winner(r).type = "GameEnded"
        /\ \E i \in 1..Len(r.state.players) :
               /\ r.state.players[i].id = Winner(r).winner_id
               /\ HasMaxCoins(r.state.players, i)
               /\ \A j \in 1..(i - 1) : ~HasMaxCoins(r.state.players, j)

\* C6 (as amended): when EndMinigame is accepted with round >= ROUNDS-1 and
\* the elimination policy does not trigger, the winner named in GameEnded is a
\* player with the maximum balance, and of several players tied for the
\* maximum it is the one that comes last in the players list.
C6_WinnerIsLastOfMaxima ==
    (phase[1] = "InMinigame" /\ round >= ROUNDS - 1) =>
        \A result \in MinigameResults, timestamp \in EndMinigameTimestamps,
           checks \in Builds :
            WinnerIsLastMax(ProcessEndMinigame(Self, result, timestamp, checks))

\* C6 (as stated): ... of several players tied for the maximum the winner is
\* the one that comes first in the players list.
C6_WinnerIsFirstOfMaxima ==
    (phase[1] = "InMinigame" /\ round >= ROUNDS - 1) =>
        \A result \in MinigameResults, timestamp \in EndMinigameTimestamps,
           checks \in Builds :
            WinnerIsFirstMax(ProcessEndMinigame(Self, result, timestamp, checks))

\* An EndMinigame at the round limit that leaves two players tied for the
\* maximum.
C6_Witness ==
    /\ phase[1] = "InMinigame" /\ round >= ROUNDS - 1
    /\ \E result \in MinigameResults, timestamp \in EndMinigameTimestamps :
           LET r == ProcessEndMinigame(Self, result, timestamp, Checked)
           IN /\ EndsAtRoundLimit(r)
              /\ \E i, j \in 1..Len(r.state.players) :
                     i # j /\ HasMaxCoins(r.state.players, i)
                           /\ HasMaxCoins(r.state.players, j)

\* ------------------------------------------------------------------------
\* C7
\* ------------------------------------------------------------------------
Distinct(ps, F(_)) == \A i, j \in 1..Len(ps) : i # j => F(ps[i]) # F(ps[j])
IdOf(p) == p.id
NameOf(p) == p.name
IsDepositOf(deposit, n) == deposit.a = 0 /\ deposit.b = 0 /\ deposit.c = n
\* The deposit is 0 or greater than 10,000,000.
BadDeposit(deposit) ==
    ~(deposit.a = 0 /\ deposit.b = 0 /\ deposit.c \in 1..MaxDeposit)

RegisterPlayerAsSpecified(caller, name, deposit) ==
    LET r == ProcessRegisterPlayer(Self, caller, name, deposit)
        refused ==
            \/ \E i \in 1..Len(players) : players[i].id = caller
            \/ \E i \in 1..Len(players) : players[i].name = name
            \/ BadDeposit(deposit)
            \/ Len(players) >= max_players
    IN IF refused
       THEN Rejected(r) /\ r.state.players = players
       ELSE /\ Accepted(r)
            /\ Len(r.state.players) = Len(players) + 1
            /\ SubSeq(r.state.players, 1, Len(players)) = players
            /\ r.state.players[Len(players) + 1].id = caller
            /\ r.state.players[Len(players) + 1].name = name
            /\ IsDepositOf(deposit, r.state.players[Len(players) + 1].coins)

\* C7: RegisterPlayer in phase Registration is rejected, with the players list
\* unchanged, whenever the caller's identity or the name already belongs to a
\* player, the deposit is 0 or greater than 10,000,000, or the list already
\* holds max_players entries; otherwise it appends one player with coins equal
\* to the deposit.  In every reachable state identities are pairwise distinct,
\* names are pairwise distinct and players.len() <= max_players.
C7_RegisterPlayerGuards ==
    /\ Distinct(players, IdOf)
    /\ Distinct(players, NameOf)
    /\ Len(players) <= max_players
    /\ phase = Registration =>
           \A caller \in RegCallers, name \in RegNamesTried, deposit \in RegDeposits :
               RegisterPlayerAsSpecified(caller, name, deposit)

\* The list is full in phase Registration and a new identity with a new name
\* and a valid deposit is turned away.
C7_Witness ==
    /\ phase = Registration
    /\ Len(players) = max_players
    /\ Rejected(ProcessRegisterPlayer(Self, Len(players) + 1,
                                      RegNames[Len(players) + 1], U64Of(1)))

\* ------------------------------------------------------------------------
\* C8
\* ------------------------------------------------------------------------
HasCoins(caller) ==
    \E i \in 1..Len(players) : players[i].id = caller /\ players[i].coins > 0
IsBalanceOf(amount, caller) ==
    \E i \in 1..Len(players) :
        players[i].id = caller /\ IsDepositOf(amount, players[i].coins)

PlaceBetAsSpecified(caller, amount, timestamp) ==
    LET r == ProcessPlaceBet(Self, caller, amount, timestamp)
        refused ==
            \/ caller \in DOMAIN bets
            \/ all_or_nothing /\ ~IsBalanceOf(amount, caller)
            \/ ~HasCoins(caller)
            \/ timestamp - round_started_at > BettingTimeout
    IN /\ refused => Rejected(r) /\ r.state.bets = bets
       /\ Accepted(r) =>
              /\ caller \notin DOMAIN bets
              /\ DOMAIN r.state.bets = DOMAIN bets \cup {caller}
              /\ r.state.bets[caller] = amount
              /\ \A id \in DOMAIN bets : r.state.bets[id] = bets[id]
              /\ all_or_nothing => IsBalanceOf(amount, caller)

\* C8: PlaceBet in phase Betting is rejected, with the ledger unchanged, when
\* the caller already has an entry in the ledger, when all_or_nothing is set
\* and the amount differs from the caller's balance, when the caller is not a
\* player or has 0 coins, or when timestamp - round_started_at > 30,000 ms.
\* An accepted PlaceBet adds exactly the caller's entry, and while the bets of
\* an all-or-nothing round are being collected every recorded bet equals the
\* bettor's balance.
C8_PlaceBetGuards ==
    /\ phase = Betting =>
           \A caller \in Ids \cup {UnknownId}, amount \in BetAmounts,
              timestamp \in PlaceBetTimestamps :
               PlaceBetAsSpecified(caller, amount, timestamp)
    /\ (all_or_nothing /\ (phase = Betting \/ phase = WheelSpin
                               \/ phase[1] = "FinalMinigame")) =>
           \A id \in DOMAIN bets : IsBalanceOf(bets[id], id)

\* An all-or-nothing round in phase Betting with one bet recorded, where the
\* other player's bet of less than the balance is turned away.
C8_Witness ==
    /\ phase = Betting /\ all_or_nothing /\ bets # EmptyBets
    /\ \E caller \in Ids, amount \in BetAmounts, timestamp \in PlaceBetTimestamps :
           /\ HasCoins(caller) /\ caller \notin DOMAIN bets
           /\ ~IsBalanceOf(amount, caller)
           /\ timestamp - round_started_at <= BettingTimeout
           /\ Rejected(ProcessPlaceBet(Self, caller, amount, timestamp))

\* ------------------------------------------------------------------------
\* C9
\* ------------------------------------------------------------------------
AllActiveHaveBet(ps, b) ==
    \A i \in 1..Len(ps) : ps[i].coins > 0 => ps[i].id \in DOMAIN b

PlaceBetAdvances(caller, amount, timestamp) ==
    LET r == ProcessPlaceBet(Self, caller, amount, timestamp)
    IN Accepted(r) =>
           IF AllActiveHaveBet(r.state.players, r.state.bets)
           THEN /\ round < ROUNDS - 1 => r.state.phase = WheelSpin
                /\ round = ROUNDS - 1 => r.state.phase = FinalMinigame(minigames[1])
           ELSE r.state.phase = Betting

\* C9: the accepted PlaceBet after which every player with coins > 0 has a
\* ledger entry changes the phase within the same action, to WheelSpin when
\* round < 9 and to FinalMinigame(minigames[0]) when round = 9; every earlier
\* accepted PlaceBet leaves the phase Betting.  No reachable state has phase
\* Betting, a player with coins > 0 and a bet recorded for every such player.
C9_LastBetAdvancesPhase ==
    /\ phase = Betting =>
           \A caller \in Ids \cup {UnknownId}, amount \in BetAmounts,
              timestamp \in PlaceBetTimestamps :
               PlaceBetAdvances(caller, amount, timestamp)
    /\ ~(/\ phase = Betting
         /\ WithCoins(players) # {}
         /\ AllActiveHaveBet(players, bets))

\* Round 9, two players with coins, one bet recorded: the second bet is
\* accepted and the phase becomes FinalMinigame.
C9_Witness ==
    /\ phase = Betting /\ round = ROUNDS - 1
    /\ Cardinality(WithCoins(players)) = 2 /\ Cardinality(DOMAIN bets) = 1
    /\ \E caller \in Ids, amount \in BetAmounts, timestamp \in PlaceBetTimestamps :
           LET r == ProcessPlaceBet(Self, caller, amount, timestamp)
           IN Accepted(r) /\ r.state.phase = FinalMinigame(minigames[1])

\* ------------------------------------------------------------------------
\* C10
\* ------------------------------------------------------------------------
\* manifest has one (identity, name, amount) entry per ledger entry whose
\* bettor has coins > 0, in ledger key order.
IsSetup(manifest) ==
    /\ \A k \in 1..Len(manifest) :
           /\ manifest[k][1] \in DOMAIN bets
           /\ manifest[k][3] = bets[manifest[k][1]]
           /\ \E i \in 1..Len(players) :
                  /\ players[i].id = manifest[k][1]
                  /\ players[i].coins > 0
                  /\ players[i].name = manifest[k][2]
    /\ \A k \in 1..(Len(manifest) - 1) : manifest[k][1] < manifest[k + 1][1]
    /\ \A id \in DOMAIN bets :
           HasCoins(id) => \E k \in 1..Len(manifest) : manifest[k][1] = id

StartMinigameAsSpecified(minigame, manifest) ==
    LET r == ProcessStartMinigame(Self, minigame, manifest)
    IN IF minigame = phase[2] /\ IsSetup(manifest)
       THEN Accepted(r) /\ r.state = [Self EXCEPT !.phase = InMinigame(minigame)]
       ELSE Rejected(r) /\ r.state = Self

\* C10: StartMinigame{minigame, players} in phase StartMinigame(expected) or
\* FinalMinigame(expected) is accepted iff minigame = expected and players is
\* exactly the list of get_minigame_setup(); on acceptance the phase becomes
\* InMinigame(minigame) and everything else is unchanged; any other manifest
\* is rejected with the state unchanged.
C10_StartMinigameManifest ==
    (phase[1] = "StartMinigame" \/ phase[1] = "FinalMinigame") =>
        \A minigame \in Contracts, manifest \in Manifests :
            StartMinigameAsSpecified(minigame, manifest)

\* Two bettors registered in the order 2, 1: the manifest in key order is
\* accepted and the manifest in registration order is rejected.
C10_Witness ==
    /\ phase[1] = "StartMinigame"
    /\ Len(players) = 2 /\ players[1].id > players[2].id
    /\ Cardinality(DOMAIN bets) = 2
    /\ Accepted(ProcessStartMinigame(Self, phase[2], GetMinigameSetup(Self)))
    /\ Rejected(ProcessStartMinigame(Self, phase[2],
                    <<GetMinigameSetup(Self)[2], GetMinigameSetup(Self)[1]>>))

\* ------------------------------------------------------------------------
\* C11
\* ------------------------------------------------------------------------
EndGameAllowed(caller, timestamp) ==
    \/ phase = GameOver
    \/ caller = backend_identity
           /\ timestamp - last_interaction_time > 2 * 60 * 1000
    \/ timestamp - last_interaction_time > 10 * 60 * 1000

EndGameAsSpecified(caller, timestamp, checks) ==
    LET r == ProcessEndGame(Self, caller, timestamp, checks)
    IN IF EndGameAllowed(caller, timestamp)
       THEN /\ Accepted(r)
            /\ r.state.phase = GameOver
            /\ r.state.players = <<>>
            /\ r.state.bets = EmptyBets
            /\ r.state.round = 0
            /\ r.state.all_or_nothing = FALSE
            /\ r.state.minigames = minigames
            /\ r.state.backend_identity = backend_identity
            /\ r.state.lane_id = lane_id
       ELSE Rejected(r) /\ r.state = Self

\* C11: EndGame is accepted iff the phase is GameOver, or the caller is the
\* backend and timestamp - last_interaction_time > 2 minutes, or timestamp -
\* last_interaction_time > 10 minutes.  Accepted, it leaves phase GameOver,
\* no players, an empty ledger, round 0 and all_or_nothing false, and keeps
\* the minigame list, the backend identity and the lane id; otherwise it is
\* rejected with the state unchanged.
C11_EndGameGuards ==
    \A caller \in Ids, timestamp \in EndGameTimestamps, checks \in Builds :
        EndGameAsSpecified(caller, timestamp, checks)

\* A running game with players: the backend ends it just after 2 minutes and
\* not at 2 minutes, another caller just after 10 minutes and not at 10.
C11_Witness ==
    /\ phase # GameOver /\ Len(players) > 0
    /\ \E caller \in Ids :
           /\ caller # backend_identity
           /\ Rejected(ProcessEndGame(Self, caller, 10 * 60 * 1000, Checked))
           /\ Accepted(ProcessEndGame(Self, caller, 10 * 60 * 1000 + 1, Checked))
    /\ Rejected(ProcessEndGame(Self, backend_identity, 2 * 60 * 1000, Checked))
    /\ Accepted(ProcessEndGame(Self, backend_identity, 2 * 60 * 1000 + 1, Checked))

\* ------------------------------------------------------------------------
\* C12
\* ------------------------------------------------------------------------
\* The seeds of the replayed Initialize.
ReplaySeeds == Seeds \cup {1196}

\* The game that Initialize{games, random_seed} at timestamp starts in a
\* newly constructed GameState.
FreshGame(games, random_seed, timestamp) ==
    ProcessInitialize(New(BackendIdentity), games, random_seed, timestamp).state

\* Initialize from the state st starts the same game as from a new GameState.
RestartsAlike(st) ==
    \A games \in MinigameLists, random_seed \in ReplaySeeds,
       timestamp \in InitializeTimestamps :
        Len(games) > 0 =>
            LET r == ProcessInitialize(st, games, random_seed, timestamp)
            IN /\ Accepted(r)
               /\ r.state = FreshGame(games, random_seed, timestamp)
               /\ r.state.dice = [min |-> 1, max |-> 10, seed |-> random_seed]
               /\ r.state.players = <<>> /\ r.state.bets = EmptyBets
               /\ r.state.round = 0 /\ ~r.state.all_or_nothing

RestartEquivalence ==
    /\ phase = GameOver => RestartsAlike(Self)
    /\ \A caller \in Ids, timestamp \in EndGameTimestamps :
           LET ended == ProcessEndGame(Self, caller, timestamp, Checked)
           IN Accepted(ended) => RestartsAlike(ended.state)

\* The generator changes only when a SpinWheel draws from it, when
\* Initialize reseeds it and when reset is called with a seed of its own.
DiceChange ==
    dice' # dice =>
        \/ phase \in {Betting, WheelSpin} /\ dice'.min = dice.min
                                          /\ dice'.max = dice.max
        \/ phase = GameOver /\ phase' = Registration /\ dice'.seed \in Seeds
        \/ Self' \in {Reset(Self, Self'.minigames, random_seed) :
                         random_seed \in ResetSeeds}

SpunOutcome(r) ==
    LET spun == {k \in 1..Len(r.events) : r.events[k].type = "WheelSpun"}
    IN IF spun = {} THEN -1 ELSE r.events[CHOOSE k \in spun : TRUE].outcome

\* Only the round moves on: balances kept, round + 1, ledger emptied, the
\* round restarted at timestamp, phase Betting.
NextRoundOnly(st, timestamp) ==
    /\ Len(st.players) = Len(players)
    /\ \A i \in 1..Len(players) : st.players[i] = players[i]
    /\ st.round = round + 1
    /\ st.bets = EmptyBets
    /\ st.round_started_at = timestamp
    /\ st.phase = Betting

SpinWheelOutcomesAsSpecified(timestamp, checks) ==
    LET r == ProcessSpinWheel(Self, timestamp, checks)
    IN Accepted(r) =>
           /\ phase = WheelSpin /\ SpunOutcome(r) \in {0, 2}
                  => NextRoundOnly(r.state, timestamp)
           /\ r.state.all_or_nothing = (SpunOutcome(r) = 2)

\* C13: a SpinWheel accepted in phase WheelSpin with outcome 0 changes no
\* balance, adds 1 to round, empties the ledger, sets round_started_at to
\* the timestamp and phase Betting; with outcome 2 it does the same and sets
\* all_or_nothing, which is false after every other accepted SpinWheel.
C13_SpinWheelOutcomes ==
    phase \in {Betting, WheelSpin} =>
        \A timestamp \in SpinWheelTimestamps, checks \in Builds :
            SpinWheelOutcomesAsSpecified(timestamp, checks)

\* A WheelSpin state with bets in the ledger whose spin draws outcome 0.
C13_Witness ==
    /\ phase = WheelSpin /\ bets # EmptyBets
    /\ \E timestamp \in SpinWheelTimestamps :
           LET r == ProcessSpinWheel(Self, timestamp, Checked)
           IN Accepted(r) /\ SpunOutcome(r) = 0

\* ------------------------------------------------------------------------
\* C14
\* ------------------------------------------------------------------------
\* The balance the penalty step of a timed-out Betting round leaves player p.
PenalizedCoins(p) ==
    IF p.coins > 0 /\ p.id \notin DOMAIN bets
    THEN IF round = 0 \/ all_or_nothing THEN 0
         ELSE IF p.coins > PenaltyCoins THEN p.coins - PenaltyCoins ELSE 0
    ELSE p.coins

\* The players left with coins by the penalty step.
LeftWithCoins == {i \in 1..Len(players) : PenalizedCoins(players[i]) > 0}

\* Nothing was drawn: generator, round and ledger as before, no WheelSpun.
NothingDrawn(r) ==
    /\ r.state.dice = dice
    /\ r.state.round = round
    /\ r.state.bets = bets
    /\ SpunOutcome(r) = -1

SpinWheelShortCircuits(timestamp, checks) ==
    LET r == ProcessSpinWheel(Self, timestamp, checks)
    IN Accepted(r) =>
           /\ Cardinality(LeftWithCoins) = 1 /\ Len(players) >= 2 =>
                  LET i == CHOOSE i \in LeftWithCoins : TRUE
                  IN /\ Len(r.events) > 0
                     /\ r.events[Len(r.events)]
                            = GameEnded(players[i].id, PenalizedCoins(players[i]))
                     /\ r.state.phase = RewardsDistribution
                     /\ NothingDrawn(r)
           /\ LeftWithCoins = {} =>
                  /\ r.state.phase = GameOver
                  /\ NothingDrawn(r)

\* C14: when the penalties of a SpinWheel accepted in phase Betting leave
\* exactly one of two or more players with coins > 0, the call emits
\* GameEnded with that player and balance, sets phase RewardsDistribution and
\* draws nothing (generator, round and ledger as before); when they leave no
\* player with coins > 0 the phase becomes GameOver, also without a draw.
C14_SpinWheelGameOverShortCircuit ==
    phase = Betting =>
        \A timestamp \in SpinWheelTimestamps, checks \in Builds :
            SpinWheelShortCircuits(timestamp, checks)

\* A timed-out Betting round of two players with coins of which only one has
\* bet: the spin penalizes the other and ends the game.
C14_Witness ==
    /\ phase = Betting /\ Len(players) >= 2
    /\ Cardinality(LeftWithCoins) = 1
    /\ \E i \in 1..Len(players) :
           players[i].coins > 0 /\ PenalizedCoins(players[i]) = 0
    /\ \E timestamp \in SpinWheelTimestamps :
           LET r == ProcessSpinWheel(Self, timestamp, Checked)
           IN Accepted(r) /\ r.state.phase = RewardsDistribution

\* Its companion: nobody has bet and the penalties take every balance.
C14_WitnessGameOver ==
    /\ phase = Betting /\ LeftWithCoins = {}
    /\ \E i \in 1..Len(players) : players[i].coins > 0
    /\ \E timestamp \in SpinWheelTimestamps :
           LET r == ProcessSpinWheel(Self, timestamp, Checked)
           IN Accepted(r) /\ r.state.phase = GameOver

\* ------------------------------------------------------------------------
\* C15
\* ------------------------------------------------------------------------
StartGameAllowed(timestamp) ==
    \/ Len(players) = max_players
    \/ timestamp - round_started_at >= 55 * 1000

StartGameAsSpecified(timestamp) ==
    LET r == ProcessStartGame(Self, timestamp)
    IN IF StartGameAllowed(timestamp)
       THEN /\ Accepted(r)
            /\ r.state.phase = Betting
            /\ r.state.round = 0
            /\ r.state.round_started_at = timestamp
       ELSE Rejected(r) /\ r.state = Self

\* C15: StartGame in phase Registration is accepted iff the game is full or
\* timestamp - round_started_at >= 55,000 ms, so also at exactly 55 s after
\* Initialize; when accepted, phase is Betting, round 0 and round_started_at
\* the timestamp; otherwise the call is rejected with the state unchanged.
C15_StartGameGuard ==
    phase = Registration =>
        \A timestamp \in StartGameTimestamps :
            StartGameAsSpecified(timestamp)

\* ------------------------------------------------------------------------
\* C16
\* ------------------------------------------------------------------------
\* Amounts on both sides of 2^31 and 2^32: 5, 10, 2^31, 2^32 + 5.
WideBetAmounts == BetAmounts \cup {U64(0, 2, 5)}

\* The u64 amount is at most the i32 balance coins (coins >= 0).
AtMostBalance(amount, coins) ==
    amount.a = 0 /\ amount.b = 0 /\ amount.c <= coins

\* C16: outside an all-or-nothing round, PlaceBet{amount} is accepted only
\* if amount is at most the caller's balance, for every u64 amount, also
\* those of 2^31 and more.
C16_BetAtMostBalance ==
    phase = Betting /\ ~all_or_nothing =>
        \A caller \in Ids, amount \in WideBetAmounts,
           timestamp \in PlaceBetTimestamps :
            Accepted(ProcessPlaceBet(Self, caller, amount, timestamp)) =>
                /\ Position(players, caller) # 0
                /\ AtMostBalance(amount, players[Position(players, caller)].coins)

\* ------------------------------------------------------------------------
\* C17
\* ------------------------------------------------------------------------
\* Timestamps around the end of the betting time of the current round.
GuardTimestamps ==
    SpinWheelTimestamps \cup {round_started_at + 30000 - 1, round_started_at + 30000}

\* The players of st have the balances PenalizedCoins gives them.
PenaltiesApplied(ps) ==
    /\ Len(ps) = Len(players)
    /\ \A i \in 1..Len(players) :
           ps[i] = [players[i] EXCEPT !.coins = PenalizedCoins(players[i])]

\* The penalty step alone, as SpinWheel runs it before the game-over check.
PenaltyStep(checks) ==
    PenalizeFrom([players |-> players, events |-> <<>>, status |-> "Ok"],
                 ToPenalizeFrom(players, bets, 1), 1,
                 round = 0 \/ all_or_nothing, checks)

SpinWheelInBetting(timestamp, checks) ==
    LET r == ProcessSpinWheel(Self, timestamp, checks)
    IN /\ Accepted(r) => timestamp - round_started_at >= 30000
       /\ timestamp - round_started_at < 30000 => Rejected(r) /\ r.state = Self
       /\ PenaltyStep(checks).status = "Ok"
       /\ PenaltiesApplied(PenaltyStep(checks).players)
       \* outcome 1 moves coins again after the penalties
       /\ Accepted(r) /\ SpunOutcome(r) # 1 => PenaltiesApplied(r.state.players)

SpinWheelInWheelSpin(timestamp, checks) ==
    LET r == ProcessSpinWheel(Self, timestamp, checks)
    IN /\ r.ret # "Not enough time has passed"
       /\ Accepted(r) =>
              /\ r.events[1].type \in {"WheelSpun", "GameEnded"}
              /\ SpunOutcome(r) # 1 => r.state.players = players

\* C17: SpinWheel in phase Betting is accepted only when
\* timestamp - round_started_at >= 30,000 ms and then penalizes exactly the
\* players with coins > 0 and no ledger entry (to 0 if round = 0 or
\* all_or_nothing, else to max(0, balance - 10)), the others keeping their
\* balance through the penalty step; in phase WheelSpin there is neither a
\* penalty nor a timing guard.
C17_SpinWheelPenalties ==
    /\ phase = Betting =>
           \A timestamp \in GuardTimestamps, checks \in Builds :
               SpinWheelInBetting(timestamp, checks)
    /\ phase = WheelSpin =>
           \A timestamp \in GuardTimestamps, checks \in Builds :
               SpinWheelInWheelSpin(timestamp, checks)

\* A timed-out Betting round after round 0, not all-or-nothing, with a bettor
\* and a player with more than 10 coins who has not bet.
C17_Witness ==
    /\ phase = Betting /\ round > 0 /\ ~all_or_nothing
    /\ \E i, j \in 1..Len(players) :
           /\ players[i].id \in DOMAIN bets /\ players[i].coins > 0
           /\ players[j].id \notin DOMAIN bets /\ players[j].coins > PenaltyCoins
           /\ LET r == ProcessSpinWheel(Self, round_started_at + 30000, Checked)
              IN /\ Accepted(r)
                 /\ r.state.players[j].coins = players[j].coins - 10

\* Its companion in WheelSpin: a spin before 30 s have passed is accepted.
C17_WitnessWheelSpin ==
    /\ phase = WheelSpin
    /\ Accepted(ProcessSpinWheel(Self, round_started_at, Checked))

\* ------------------------------------------------------------------------
\* C18
\* ------------------------------------------------------------------------
\* The balance of players[i] when the outcome is drawn, after the penalties.
BeforePayOut(i) ==
    IF phase = Betting THEN PenalizedCoins(players[i]) ELSE players[i].coins

RECURSIVE SumFrom(_, _)
SumFrom(seq, i) == IF i > Len(seq) THEN 0 ELSE seq[i] + SumFrom(seq, i + 1)

\* The sum of the amounts of the CoinsChanged events of evs for player id,
\* from the k-th event on.
RECURSIVE ChangesFrom(_, _, _)
ChangesFrom(evs, id, k) ==
    IF k > Len(evs) THEN 0
    ELSE IF evs[k].type = "CoinsChanged" /\ evs[k].player_id = id
    THEN evs[k].amount + ChangesFrom(evs, id, k + 1)
    ELSE ChangesFrom(evs, id, k + 1)

\* The index of the WheelSpun event of r.
SpunAt(r) == CHOOSE k \in 1..Len(r.events) : r.events[k].type = "WheelSpun"

PayOutConserves(r) ==
    /\ Len(r.state.players) = Len(players)
    \* the sum of the balances is the one after the penalties
    /\ SumFrom(Balances(r.state.players), 1)
           = SumFrom([i \in 1..Len(players) |-> BeforePayOut(i)], 1)
    \* every bet is taken whole and credited whole: no clamp is hit
    /\ \A i \in 1..Len(players) :
           r.state.players[i].coins
               = BeforePayOut(i) + ChangesFrom(r.events, players[i].id, SpunAt(r))
    \* the credits go to players that had coins when the outcome was drawn
    /\ \A k \in SpunAt(r)..Len(r.events) :
           r.events[k].type = "CoinsChanged" /\ r.events[k].amount > 0 =>
               \E i \in 1..Len(players) :
                   players[i].id = r.events[k].player_id /\ BeforePayOut(i) > 0
    /\ r.state.round = round + 1
    /\ r.state.bets = EmptyBets
    /\ r.state.phase = Betting

\* C18: an accepted SpinWheel with outcome 1 conserves the sum of the
\* balances (as it is after the penalties), hits no clamp at zero while taking
\* a bet, credits each bet to a player that had coins > 0 when the outcome was
\* drawn, and ends with round + 1, an empty ledger and phase Betting.
C18_OutcomeOneConservesCoins ==
    phase \in {Betting, WheelSpin} =>
        \A timestamp \in SpinWheelTimestamps, checks \in Builds :
            LET r == ProcessSpinWheel(Self, timestamp, checks)
            IN Accepted(r) /\ SpunOutcome(r) = 1 => PayOutConserves(r)

\* ------------------------------------------------------------------------
\* C19
\* ------------------------------------------------------------------------
\* max(0, c + d) for a balance c >= 0, and -1 where that sum is above the
\* i32 range, so that no balance equals it.
ClampedSum(c, d) ==
    IF c < 0 \/ (d > 0 /\ c > MaxI32 - d) THEN -1
    ELSE IF c + d > 0 THEN c + d ELSE 0

\* The balance of the player id after the entries of player_results from the
\* k-th on, starting from c.
RECURSIVE BalanceAfter(_, _, _, _)
BalanceAfter(c, id, player_results, k) ==
    IF k > Len(player_results) THEN c
    ELSE IF player_results[k].player_id = id
    THEN BalanceAfter(ClampedSum(c, player_results[k].coins_delta), id,
                      player_results, k + 1)
    ELSE BalanceAfter(c, id, player_results, k + 1)

ResultsApplied(st, result) ==
    /\ Len(st.players) = Len(players)
    /\ \A i \in 1..Len(players) :
           st.players[i] =
               [players[i] EXCEPT
                   !.coins = BalanceAfter(@, players[i].id, result.player_results, 1)]

\* The game-over policy triggers on the players ps.
PolicyTriggers(ps) ==
    \/ Cardinality(WithCoins(ps)) = 1 /\ Len(ps) > 1
    \/ WithCoins(ps) = {}

EndMinigameAsSpecified(result, timestamp, checks) ==
    LET r == ProcessEndMinigame(Self, result, timestamp, checks)
    IN Accepted(r) =>
           /\ ResultsApplied(r.state, result)
           /\ ~PolicyTriggers(r.state.players) =>
                  IF round >= ROUNDS - 1
                  THEN /\ r.state.phase = RewardsDistribution
                       /\ r.state.round = round
                       /\ r.state.bets = bets
                  ELSE /\ r.state.phase = Betting
                       /\ r.state.round = round + 1
                       /\ r.state.bets = EmptyBets
                       /\ r.state.round_started_at = timestamp

\* C19: an accepted EndMinigame applies the result entries in order, each
\* referenced balance becoming max(0, balance + coins_delta), so that a
\* positive delta never lowers a balance up to the top of the i32 range, and
\* leaves the other players alone; then, unless the game-over policy triggers,
\* the phase is RewardsDistribution when round >= ROUNDS - 1 (round and ledger
\* kept) and otherwise Betting with round + 1, an empty ledger and
\* round_started_at the timestamp.
C19_EndMinigameApplies ==
    phase[1] = "InMinigame" =>
        \A result \in MinigameResults, timestamp \in EndMinigameTimestamps,
           checks \in Builds :
            EndMinigameAsSpecified(result, timestamp, checks)

\* ------------------------------------------------------------------------
\* C20
\* ------------------------------------------------------------------------
\* The call fell through to the catch-all arm: rejected, state unchanged.
NoArm(r) == r.ret = InvalidAction /\ r.state = Self

\* Manifests and results that the arms of their actions would take.
LikelyManifests == {<<>>, GetMinigameSetup(Self)}
ShortResults ==
    {[contract_name |-> "a", player_results |-> pr] : pr \in SeqsUpTo(PlayerResults, 1)}

OutsideTableRejected ==
    /\ phase # GameOver =>
           \A games \in MinigameLists, random_seed \in Seeds,
              timestamp \in InitializeTimestamps :
               NoArm(ProcessInitialize(Self, games, random_seed, timestamp))
    /\ phase # Registration =>
           /\ \A caller \in Ids \cup {UnknownId}, name \in Names, deposit \in Deposits :
                  NoArm(ProcessRegisterPlayer(Self, caller, name, deposit))
           /\ \A timestamp \in StartGameTimestamps :
                  NoArm(ProcessStartGame(Self, timestamp))
    /\ phase # Betting =>
           \A caller \in Ids, amount \in BetAmounts, timestamp \in PlaceBetTimestamps :
               NoArm(ProcessPlaceBet(Self, caller, amount, timestamp))
    /\ phase \notin {Betting, WheelSpin} =>
           \A timestamp \in SpinWheelTimestamps, checks \in Builds :
               NoArm(ProcessSpinWheel(Self, timestamp, checks))
    /\ phase[1] \notin {"StartMinigame", "FinalMinigame"} =>
           \A minigame \in Contracts, manifest \in LikelyManifests :
               NoArm(ProcessStartMinigame(Self, minigame, manifest))
    /\ phase[1] # "InMinigame" =>
           \A result \in ShortResults, timestamp \in EndMinigameTimestamps,
              checks \in Builds :
               NoArm(ProcessEndMinigame(Self, result, timestamp, checks))
    /\ phase # RewardsDistribution => NoArm(ProcessDistributeRewards(Self))
    /\ NoArm(ProcessEndTurn(Self))

\* The edges of the transition table, EndGame and reset leading to GameOver
\* from every phase.
TableEdge(from, to) ==
    \/ to = GameOver
    \/ from = GameOver /\ to = Registration
    \/ from = Registration /\ to = Betting
    \/ from = Betting
           /\ \/ to \in {WheelSpin, RewardsDistribution}
              \/ to[1] \in {"StartMinigame", "FinalMinigame"}
    \/ from = WheelSpin
           /\ \/ to \in {Betting, RewardsDistribution}
              \/ to[1] = "StartMinigame"
    \/ from[1] \in {"StartMinigame", "FinalMinigame"} /\ to = InMinigame(from[2])
    \/ from[1] = "InMinigame" /\ to \in {Betting, RewardsDistribution}

PhaseEdge == phase' # phase => TableEdge(phase, phase')

\* C20: every (phase, action) pair outside the transition table is rejected
\* with the state unchanged (Initialize outside GameOver, RegisterPlayer and
\* StartGame outside Registration, PlaceBet outside Betting, SpinWheel outside
\* Betting and WheelSpin, StartMinigame outside StartMinigame(_) and
\* FinalMinigame(_), EndMinigame outside InMinigame(_), DistributeRewards
\* outside RewardsDistribution, EndTurn everywhere), and the phase changes
\* only along the edges of the table.
C20_OutsideTableRejected == []OutsideTableRejected /\ [][PhaseEdge]_vars

\* A minigame in progress: a bet that the Betting arm would take is rejected
\* by the catch-all arm, and so is a SpinWheel.
C20_Witness ==
    /\ phase[1] = "InMinigame"
    /\ \E caller \in Ids :
           /\ NoArm(ProcessPlaceBet(Self, caller, U64Of(5), round_started_at))
           /\ Accepted(ProcessPlaceBet([Self EXCEPT !.phase = Betting, !.bets = EmptyBets],
                                       caller, U64Of(5), round_started_at))
    /\ NoArm(ProcessSpinWheel(Self, round_started_at + 30000, Checked))

\* ------------------------------------------------------------------------
\* C21
\* ------------------------------------------------------------------------
\* Timestamps of all the actions, for the arms that do not read theirs.
ActionTimestamps ==
    InitializeTimestamps \cup StartGameTimestamps \cup PlaceBetTimestamps
        \cup SpinWheelTimestamps

\* The accepted call r, made at timestamp, leaves that timestamp in
\* last_interaction_time, so that ten minutes later a caller other than the
\* backend still cannot end the game it left in progress.
TimeRecorded(r, timestamp) ==
    Accepted(r) =>
        /\ r.state.last_interaction_time = timestamp
        /\ r.state.phase # GameOver =>
               \A caller \in Ids \ {r.state.backend_identity}, checks \in Builds :
                   Rejected(ProcessEndGame(r.state, caller,
                                           timestamp + 10 * 60 * 1000, checks))

\* C21: after every accepted action last_interaction_time is that action's
\* timestamp, so the 2-minute and 10-minute windows of EndGame are measured
\* from the last accepted action: a game in which an action was accepted less
\* than ten minutes ago cannot be ended by a caller other than the backend.
C21_LastInteractionTime ==
    /\ \A caller \in Ids, timestamp \in EndGameTimestamps, checks \in Builds :
           TimeRecorded(ProcessEndGame(Self, caller, timestamp, checks), timestamp)
    /\ phase = GameOver =>
           \A games \in MinigameLists, random_seed \in Seeds,
              timestamp \in InitializeTimestamps :
               TimeRecorded(ProcessInitialize(Self, games, random_seed, timestamp),
                            timestamp)
    /\ phase = Registration =>
           /\ \A caller \in Ids, name \in Names, deposit \in Deposits,
                 timestamp \in ActionTimestamps :
                  TimeRecorded(ProcessRegisterPlayer(Self, caller, name, deposit),
                               timestamp)
           /\ \A timestamp \in StartGameTimestamps :
                  TimeRecorded(ProcessStartGame(Self, timestamp), timestamp)
    /\ phase = Betting =>
           \A caller \in Ids, amount \in BetAmounts, timestamp \in PlaceBetTimestamps :
               TimeRecorded(ProcessPlaceBet(Self, caller, amount, timestamp), timestamp)
    /\ phase \in {Betting, WheelSpin} =>
           \A timestamp \in SpinWheelTimestamps, checks \in Builds :
               TimeRecorded(ProcessSpinWheel(Self, timestamp, checks), timestamp)
    /\ phase[1] \in {"StartMinigame", "FinalMinigame"} =>
           \A minigame \in Contracts, manifest \in LikelyManifests,
              timestamp \in ActionTimestamps :
               TimeRecorded(ProcessStartMinigame(Self, minigame, manifest), timestamp)
    /\ phase[1] = "InMinigame" =>
           \A result \in ShortResults, timestamp \in EndMinigameTimestamps,
              checks \in Builds :
               TimeRecorded(ProcessEndMinigame(Self, result, timestamp, checks),
                            timestamp)
    /\ phase = RewardsDistribution =>
           \A timestamp \in ActionTimestamps :
               TimeRecorded(ProcessDistributeRewards(Self), timestamp)

\* ------------------------------------------------------------------------
\* C22
\* ------------------------------------------------------------------------
\* The errors of the branches that should never be taken.
FatalErrors ==
    {"No minigame available", "No final minigame available", "Bettor not found",
     "Player not found", "No players found"}

NoFatalError(r) == r.ret \notin FatalErrors

\* What keeps those branches out of reach, as a property of the state.
FatalBranchesOutOfReach ==
    /\ phase # GameOver => Len(minigames) > 0
    /\ \A id \in DOMAIN bets : \E i \in 1..Len(players) : players[i].id = id
    /\ phase[1] = "InMinigame" => Len(players) > 0

\* The calls that pass by one of those branches, for the inputs of Spec and
\* both builds; results of more than one entry where the winner is looked up.
NoCallIsFatal ==
    /\ phase = Betting =>
           \A caller \in Ids \cup {UnknownId}, amount \in BetAmounts,
              timestamp \in PlaceBetTimestamps :
               NoFatalError(ProcessPlaceBet(Self, caller, amount, timestamp))
    /\ phase \in {Betting, WheelSpin} =>
           \A timestamp \in SpinWheelTimestamps, checks \in Builds :
               NoFatalError(ProcessSpinWheel(Self, timestamp, checks))
    /\ phase[1] = "InMinigame" =>
           \A result \in IF round >= ROUNDS - 1 THEN MinigameResults ELSE ShortResults,
              timestamp \in EndMinigameTimestamps, checks \in Builds :
               NoFatalError(ProcessEndMinigame(Self, result, timestamp, checks))

\* C22: no sequence of actions from GameState::new makes process_action
\* return "No minigame available", "No final minigame available", "Bettor not
\* found", "Player not found" or "No players found": outside GameOver the
\* minigame list is non-empty, every ledger key is the identity of a player
\* of the list, and InMinigame is never reached with an empty players list.
C22_FatalBranchesUnreachable ==
    /\ FatalBranchesOutOfReach
    /\ NoCallIsFatal

\* A spin that draws a minigame and finds one to offer.
C22_Witness ==
    /\ phase = WheelSpin /\ bets # EmptyBets
    /\ \E timestamp \in SpinWheelTimestamps :
           LET r == ProcessSpinWheel(Self, timestamp, Checked)
           IN /\ Accepted(r) /\ SpunOutcome(r) >= 3
              /\ r.state.phase = StartMinigamePhase(minigames[1])

\* Its companion at the round limit: the winner is looked up and found.
C22_WitnessWinner ==
    /\ phase[1] = "InMinigame" /\ round >= ROUNDS - 1
    /\ \E result \in ShortResults, timestamp \in EndMinigameTimestamps :
           LET r == ProcessEndMinigame(Self, result, timestamp, Checked)
           IN /\ Accepted(r) /\ Len(r.events) > 1
              /\ r.events[Len(r.events) - 1].type = "MinigameEnded"
              /\ r.events[Len(r.events)].type = "GameEnded"

\* ------------------------------------------------------------------------
\* A game of up to three players
\* ------------------------------------------------------------------------
\* With three players one of them can be out of coins while the game goes
\* on between the other two.  Each identity registers under its own name,
\* and a minigame result has one entry, so that a rejected call leaves the
\* state as it was and every state is the one left by an accepted action.
ThreeIds == {1, 2, 3}
ThreeNames == <<"alice", "bob", "carol">>
ThreeResults ==
    {[contract_name |-> "a",
      player_results |-> <<[player_id |-> id, coins_delta |-> d]>>] :
         id \in ThreeIds, d \in {-10, 10}}
        \cup {[contract_name |-> "a", player_results |-> <<>>]}

ResetCallThree ==
    \E games \in ResetLists, random_seed \in ResetSeeds :
        Apply(Reset(Self, games, random_seed))

EndGameThree ==
    \E caller \in ThreeIds, timestamp \in EndGameTimestamps :
        Returns(ProcessEndGame(Self, caller, timestamp, Wrapping))

InitializeThree ==
    Returns(ProcessInitialize(Self, <<"b", "a">>, 963, 0))

RegisterPlayerThree ==
    \E caller \in ArgsIn(phase = Registration, ThreeIds) :
        Returns(ProcessRegisterPlayer(Self, caller, ThreeNames[caller], U64Of(15)))

StartGameThree ==
    Returns(ProcessStartGame(Self, 55001))

PlaceBetThree ==
    \E caller \in ArgsIn(phase = Betting, ThreeIds),
       amount \in ArgsIn(phase = Betting, {U64Of(5), U64Of(15)}) :
        Returns(ProcessPlaceBet(Self, caller, amount, 55001))

SpinWheelThree ==
    \E timestamp \in ArgsIn(phase \in {Betting, WheelSpin}, SpinWheelTimestamps) :
        Returns(ProcessSpinWheel(Self, timestamp, Wrapping))

StartMinigameThree ==
    \E minigame \in ArgsIn(phase[1] \in {"StartMinigame", "FinalMinigame"}, Contracts) :
        Returns(ProcessStartMinigame(Self, minigame, GetMinigameSetup(Self)))

EndMinigameThree ==
    \E result \in ArgsIn(phase[1] = "InMinigame", ThreeResults) :
        /\ Returns(ProcessEndMinigame(Self, result, 55001, Wrapping))
        /\ \A i \in 1..Len(players') : players'[i].coins <= MaxCoins

EndTurnThree ==
    Returns(ProcessEndTurn(Self))

DistributeRewardsThree ==
    Returns(ProcessDistributeRewards(Self))

NextThree ==
    \/ ResetCallThree
    \/ EndGameThree
    \/ InitializeThree
    \/ RegisterPlayerThree
    \/ StartGameThree
    \/ PlaceBetThree
    \/ SpinWheelThree
    \/ StartMinigameThree
    \/ EndMinigameThree
    \/ EndTurnThree
    \/ DistributeRewardsThree

SpecThree == Init /\ [][NextThree]_vars

\* ------------------------------------------------------------------------
\* C23
\* ------------------------------------------------------------------------
\* The step is no reset: the players of the game are still listed.
SameGame == Len(players') = Len(players) /\ Len(players) > 0

\* C23: elimination is permanent within a game: a player whose balance is 0
\* in the state left by an accepted action has balance 0 in every later state
\* until the next reset (EndGame or Initialize); no redistribution and no
\* minigame result brings the player back to a positive balance.
C23_EliminationIsPermanent ==
    [][SameGame =>
           \A i \in 1..Len(players) :
               players[i].coins = 0 => players'[i].coins = 0]_vars

====
